---- MODULE Spec2Model ----
(***************************************************************************)
(* The audio capture pipeline of src/audio_capture.py (class AudioCapture): *)
(* the caller's start()/stop(), the audio subsystem's callback thread, the  *)
(* bounded sequence of segmenter threads running _process_audio_chunks,     *)
(* and the consumer callback they invoke.                                   *)
(*                                                                         *)
(* Units.  The pipeline is run with sample_rate = 10, so that one sample    *)
(* lasts 0.1 s.  Durations are written in tenths of a second, amplitudes    *)
(* in thousandths of full scale, and the clock counts ticks of 0.1 s (the   *)
(* timeout of audio_queue.get).  int(rate * seconds) of the source is       *)
(* (rate * tenths) \div 10 here.                                            *)
(***************************************************************************)
EXTENDS Integers, Sequences, FiniteSets, TLC

\* ----------------------------------------------------------------- bounds
\* start() calls that get as far as spawning a thread, in one run
MaxStarts == 2
\* blocks the hardware delivers in one untimed run
MaxBlocks == 2
\* last tick of a timed run with a prompt consumer callback
Horizon == 70
\* last tick of a timed run with a slow consumer callback
SlowHorizon == 85
\* consumer callback invocations of one run that take time
MaxSlowCalls == 1
\* consumer callback invocations of one run that raise
MaxRaises == 1
\* blocks already queued when a fed-ahead timed run begins
PrefillBlocks == 14
\* the emission counter saturates here
EmitCap == 3
\* the largest queue capacity a run can tell from no capacity at all
QueueCapacity == 8
\* last tick of a timed run with faults
FaultHorizon == 25
\* blocks of one run whose processing raises
MaxBlockFaults == 1
\* audio callback invocations of one run that carry an error status
MaxStatus == 1
\* longest block handed to a helper method called on its own, in samples
MaxSamples == 6
\* most devices sd.query_devices() enumerates
MaxDevices == 2

\* ------------------------------------------------------ program constants
\* AudioCapture(sample_rate=...): the target rate, samples per second
target_sample_rate == 10
\* AudioCapture(silence_threshold=0.015), in thousandths
silence_threshold == 15
\* AudioCapture(min_silence_duration=1.0), in tenths of a second
min_silence_duration == 10
\* max_time_between_processes = 6.0, in ticks
max_time_between_processes == 60
\* audio_queue.get(timeout=0.1), in ticks
GetTimeoutTicks == 1
\* blocksize=int(device_sample_rate * 0.5): the block duration in tenths
BlockTenths == 5
\* int(target_sample_rate * 1.5): the minimum-content floor in tenths
MinAudioTenths == 15
\* int(target_sample_rate * 0.3): the overlap in tenths
OverlapTenths == 3

\* amplitudes a block can have: digital silence, and half of full scale
Amps == {0, 500}
\* device rates _get_device_sample_rate can return for the runs modelled
DeviceRates == {10, 5}
\* AudioCapture(max_buffer_duration=...) of the timed runs, in tenths
MaxBufferChoices == {21, 100}
\* AudioCapture(max_buffer_duration=...) of the untimed runs, in tenths
LifecycleMaxBuffer == {5}

Threads == 1..MaxStarts

\* sample values of a block handed to _detect_silence on its own, in
\* thousandths: digital silence, just over the threshold, and loud
SampleAmps == {0, 16, -500}
\* thresholds _detect_silence is called with: self.silence_threshold, and
\* its own default of 0.01
Thresholds == {silence_threshold, 10}
\* rates _resample_audio is called with on its own
ResampleRates == {3, 5, 10}
\* the common rates _get_device_sample_rate tries after the default, in Hz
CommonRates == <<48000, 44100, 96000, 192000, 32000, 16000>>
\* AudioCapture(sample_rate=...) of the negotiations modelled, in Hz
TargetRates == {16000, 22050, 44100}
\* default_samplerate the device can report, in Hz
DefaultRates == {44100, 48000, 22050, 8000}
\* rates the hardware can accept, in Hz
HardwareRates == {8000, 16000, 22050, 44100, 48000, 96000}

VARIABLES
    \* configuration, fixed by the constructor
    device_sample_rate,  \* self.device_sample_rate
    max_buffer_duration, \* self.max_buffer_duration, in tenths
    timed,               \* TRUE: the run has a clock; FALSE: time is abstracted
    feed,                \* where blocks come from: "hardware" or "prefilled"
    pattern,             \* the audio played: "loud", "silent", "alt" or "any"
    consumer,            \* the consumer callback: "prompt" (takes no time) or "slow"
    horizon,             \* the last tick of a timed run
    \* AudioCapture fields
    is_recording,        \* self.is_recording
    stream,              \* self.stream: "None" or "open" (a handle is held)
    audio_queue,         \* self.audio_queue
    thread,              \* self.thread: 0 (None) or a thread id
    \* the hardware stream and its callback thread
    hw,                  \* "off" or "on": the stream is delivering blocks
    acb,                 \* _audio_callback in flight: <<>> or <<block>>
    delivered,           \* blocks the hardware has handed to the callback
    \* segmenter threads: position and locals of _process_audio_chunks
    pc,                  \* "unborn", "loop", "get", "cb_block", "cb_timeout", "done"
    buffer,              \* buffer: a sequence of samples, each tagged with its block
    silence_duration,    \* silence_duration
    last_process_time,   \* last_process_time
    chunk_to_process,    \* the phrase handed to the consumer callback
    waited,              \* ticks spent in the current audio_queue.get
    consumed,            \* blocks this thread has taken from the queue
    min_audio_bound,     \* the local min_audio_duration has been assigned (line 401)
    \* the caller thread
    cpc,                 \* "idle" or the step of start()/stop() it is at
    ret,                 \* how the caller's last call ended
    \* the clock
    now,
    \* history
    spawned,             \* threads started so far
    warned,              \* threads whose join timed out (warning logged)
    lastEmit,            \* the last consumer callback invocation
    emitCount,           \* consumer callback invocations, saturating
    timeoutAttempt,      \* a timeout-path emission has been attempted
    cbTicks,             \* ticks spent inside the consumer callback since lastEmit
    slowCalls,           \* consumer callback invocations that have taken time
    raises,              \* consumer callback invocations that have raised
    lastBlock,           \* the last block arrival: buffer length after the append,
                         \* whether it emitted, buffer length it left
    lateBlock,           \* a block arrived 6 s or more after the previous emission
    logged,              \* messages logged so far, counted by kind
    \* a helper method called on its own
    helper               \* the last such call: method, arguments, result

config == <<device_sample_rate, max_buffer_duration, timed, feed, pattern,
            consumer, horizon>>
fields == <<is_recording, stream, audio_queue, thread>>
hardware == <<hw, acb, delivered>>
locals == <<pc, buffer, silence_duration, last_process_time, chunk_to_process,
            waited, consumed, min_audio_bound>>
caller == <<cpc, ret>>
history == <<spawned, warned, lastEmit, emitCount, timeoutAttempt, cbTicks,
             slowCalls, raises, lastBlock, lateBlock, logged>>
vars == <<config, helper, fields, hardware, locals, caller, now, history>>

\* ------------------------------------------------------------ pure helpers
Min(a, b) == IF a < b THEN a ELSE b

\* int(rate * seconds), the duration given in tenths of a second
SamplesOf(rate, tenths) == (rate * tenths) \div 10

\* max_buffer_duration taken in the wrong unit
max_buffer_duration_samples_wrong == target_sample_rate * max_buffer_duration

min_silence_duration_samples == SamplesOf(target_sample_rate, min_silence_duration)
max_buffer_duration_samples == SamplesOf(target_sample_rate, max_buffer_duration)
min_audio_duration == SamplesOf(target_sample_rate, MinAudioTenths)
overlap_samples == SamplesOf(target_sample_rate, OverlapTenths)

\* blocksize of the input stream, in device-rate frames
BlockSize == SamplesOf(device_sample_rate, BlockTenths)
\* the real time one block takes to record, in ticks
BlockTicks == (BlockSize * 10) \div device_sample_rate

\* _resample_audio that loses the audio of the block
ResampleAudioSilences(chunk, from_rate, to_rate) ==
    [chunk EXCEPT !.len = (chunk.len * to_rate) \div from_rate, !.amp = 0]

\* _resample_audio: the block keeps its audio, its length becomes
\* int(len * to_rate / from_rate)
ResampleAudio(chunk, from_rate, to_rate) ==
    IF from_rate = to_rate THEN chunk
    ELSE [chunk EXCEPT !.len = (chunk.len * to_rate) \div from_rate]

\* the samples of a block, each tagged with the block's number
SamplesOfBlock(chunk) == [i \in 1..chunk.len |-> chunk.n]

\* the samples of a block as _detect_silence sees them: its amplitude, len
\* times
AudioData(chunk) == [i \in 1..chunk.len |-> chunk.amp]

Abs(x) == IF x < 0 THEN -x ELSE x

RECURSIVE SumSq(_)
SumSq(audio_data) ==
    IF audio_data = <<>> THEN 0
    ELSE Head(audio_data) * Head(audio_data) + SumSq(Tail(audio_data))

\* _detect_silence that finds no block silent
DetectSilenceNever(audio_data, threshold) == FALSE

\* _detect_silence that looks at the RMS energy only
DetectSilenceRmsOnly(audio_data, threshold) ==
    /\ Len(audio_data) > 0
    /\ SumSq(audio_data) < threshold * threshold * Len(audio_data)

\* _detect_silence (lines 346-359).  rms = sqrt(mean(x^2)) < threshold is
\* sum(x^2) < threshold^2 * len; silent_ratio > 0.8 is 10 * silent_samples >
\* 8 * len.  Of an empty block the mean and the ratio are nan, and both
\* comparisons are false.
DetectSilence(audio_data, threshold) ==
    LET n == Len(audio_data)
        rms_below == SumSq(audio_data) < threshold * threshold * n
        silent_samples == Cardinality({i \in 1..n : Abs(audio_data[i]) < threshold})
    IN  IF n = 0 THEN FALSE
        ELSE IF rms_below THEN TRUE
        ELSE 10 * silent_samples > 8 * n

\* should_process without the silence trigger
ShouldProcessNoSilence(sil, buflen, since) ==
    \/ buflen >= SamplesOf(target_sample_rate, max_buffer_duration)
    \/ since >= max_time_between_processes /\ buflen >= SamplesOf(target_sample_rate, MinAudioTenths)

\* should_process without the overflow trigger
ShouldProcessNoOverflow(sil, buflen, since) ==
    \/ /\ sil >= SamplesOf(target_sample_rate, min_silence_duration)
       /\ buflen >= SamplesOf(target_sample_rate, MinAudioTenths)
    \/ since >= max_time_between_processes /\ buflen >= SamplesOf(target_sample_rate, MinAudioTenths)

\* should_process whose silence trigger does not ask for 1.5 s of audio
ShouldProcessNoMinAudio(sil, buflen, since) ==
    \/ sil >= SamplesOf(target_sample_rate, min_silence_duration)
    \/ buflen >= SamplesOf(target_sample_rate, max_buffer_duration)
    \/ since >= max_time_between_processes /\ buflen >= SamplesOf(target_sample_rate, MinAudioTenths)

\* the emission decision of a block arrival (should_process)
ShouldProcess(sil, buflen, since) ==
    \/ sil >= min_silence_duration_samples /\ buflen >= min_audio_duration
    \/ buflen >= max_buffer_duration_samples
    \/ since >= max_time_between_processes /\ buflen >= min_audio_duration

\* a queue-read timeout that does not ask for a non-empty buffer
TimeoutShouldProcessEmpty(buflen, since) ==
    buflen >= SamplesOf(target_sample_rate, MinAudioTenths) \/ since >= max_time_between_processes

\* the emission decision of a queue-read timeout
TimeoutShouldProcess(buflen, since) ==
    buflen > 0 /\ (buflen >= min_audio_duration \/ since >= max_time_between_processes)

\* buffer[:-k] and buffer[-k:] of Python (k = 0 gives the empty prefix and
\* the whole buffer)
PyButLast(buf, k) == IF k = 0 THEN <<>> ELSE SubSeq(buf, 1, Len(buf) - k)
PyLast(buf, k) == IF k = 0 THEN buf ELSE SubSeq(buf, Len(buf) - k + 1, Len(buf))

\* a block-path emission that keeps no overlap
KeptOfNothing(buf) == <<>>

\* the phrase and the buffer kept by a block-path emission
PhraseOf(buf) == IF Len(buf) > overlap_samples THEN PyButLast(buf, overlap_samples) ELSE buf
KeptOf(buf) == IF Len(buf) > overlap_samples THEN PyLast(buf, overlap_samples) ELSE <<>>

\* self.callback is set
HasCallback == TRUE

\* time.time() - last_process_time, in ticks; an untimed run may see any
\* side of the 6 s trigger
TimeSince(t) ==
    IF timed THEN {now - last_process_time[t]} ELSE {0, max_time_between_processes}

\* the amplitude of the k-th block played: "alt" is 2 s loud, 1.5 s silent
PatternAmps(k) ==
    CASE pattern = "loud" -> {500}
      [] pattern = "silent" -> {0}
      [] pattern = "alt" -> IF (k - 1) % 7 < 4 THEN {500} ELSE {0}
      [] OTHER -> Amps

NewBlock(k, a) == [n |-> k, len |-> BlockSize, amp |-> a]

InCallback(t) == pc[t] \in {"cb_block", "cb_timeout"}
Alive(t) == pc[t] \notin {"unborn", "done"}

NoBlock == [t |-> 0, peak |-> 0, emitted |-> FALSE, kept |-> 0]
NoEmit == [t |-> 0, len |-> 0, path |-> "none", sil |-> 0, at |-> 0]
Bump(c) == Min(c + 1, EmitCap)
\* nothing logged yet: logger.warning("Audio callback status: ...") (line
\* 318) and logger.error("Error processing audio: ...") (line 453)
NoLog == [status |-> 0, processing |-> 0]
NoCall == [fn |-> "none", args |-> <<>>, out |-> 0]

\* ------------------------------------------------- the audio callback thread
\* the status flags the audio subsystem can pass to _audio_callback: a run on
\* faulty hardware can see an error status
StatusChoices ==
    IF feed = "faulty" /\ logged.status < MaxStatus THEN {FALSE, TRUE} ELSE {FALSE}

\* indata as the stream hands it over: one amplitude per channel, the
\* pattern played on the first channel; a one-dimensional indata is its
\* only channel
InData(k, chans) == [n |-> k, len |-> BlockSize, chans |-> chans]
Channels(a) == {<<a>>} \cup {<<a, b>> : b \in Amps}

\* an audio callback that keeps the last channel of its input
MonoOfLastChannel(indata) ==
    [n |-> indata.n, len |-> indata.len, amp |-> indata.chans[Len(indata.chans)]]

\* indata[:, 0] if indata.ndim > 1 else indata, as float32 (lines 322-323)
Mono(indata) == [n |-> indata.n, len |-> indata.len, amp |-> indata.chans[1]]

\* The hardware hands block number delivered + 1 to _audio_callback, which
\* logs a status if there is one (lines 317-318) and reads is_recording
\* (line 320); a timed run delivers a block when it is due.
AudioCallbackEnter ==
    /\ hw = "on" /\ acb = <<>>
    /\ IF timed THEN (delivered + 1) * BlockTicks <= now ELSE delivered < MaxBlocks
    /\ \E a \in PatternAmps(delivered + 1) : \E chans \in Channels(a) :
          acb' = IF is_recording THEN <<Mono(InData(delivered + 1, chans))>> ELSE <<>>
    /\ \E status \in StatusChoices :
          logged' = IF status THEN [logged EXCEPT !.status = @ + 1] ELSE logged
    /\ delivered' = delivered + 1
    /\ UNCHANGED <<config, helper, fields, hw, locals, caller, now, spawned, warned,
                   lastEmit, emitCount, timeoutAttempt, cbTicks, slowCalls, raises,
                   lastBlock, lateBlock>>

\* an audio callback that drops its block
AudioCallbackDrops ==
    /\ acb # <<>>
    /\ acb' = <<>>
    /\ UNCHANGED <<config, helper, fields, hw, delivered, locals, caller, now, history>>

\* an audio callback whose put waits while a segmenter is inside the consumer
\* callback
AudioCallbackPutWaits ==
    /\ acb # <<>>
    /\ \A t \in Threads : ~InCallback(t)
    /\ audio_queue' = Append(audio_queue, acb[1])
    /\ acb' = <<>>
    /\ UNCHANGED <<config, helper, is_recording, stream, thread, hw, delivered, locals,
                   caller, now, history>>

\* audio_queue.put_nowait(audio_data.copy()) (line 327); the queue has no
\* maxsize, so queue.Full is never raised
AudioCallbackPut ==
    /\ acb # <<>>
    /\ audio_queue' = Append(audio_queue, acb[1])
    /\ acb' = <<>>
    /\ UNCHANGED <<config, helper, is_recording, stream, thread, hw, delivered, locals,
                   caller, now, history>>

\* ------------------------------------------------------ the segmenter thread
\* a segmenter loop that does not look at is_recording
ThreadLoopIgnoresFlag(t) ==
    /\ pc[t] = "loop"
    /\ pc' = [pc EXCEPT ![t] = "get"]
    /\ waited' = [waited EXCEPT ![t] = 0]
    /\ UNCHANGED <<config, helper, fields, hardware, buffer, silence_duration,
                   last_process_time, chunk_to_process, consumed, min_audio_bound, caller, now, history>>

\* while self.is_recording: (line 372), the flag read as true
ThreadLoop(t) ==
    /\ pc[t] = "loop" /\ is_recording
    /\ pc' = [pc EXCEPT ![t] = "get"]
    /\ waited' = [waited EXCEPT ![t] = 0]
    /\ UNCHANGED <<config, helper, fields, hardware, buffer, silence_duration,
                   last_process_time, chunk_to_process, consumed, min_audio_bound, caller, now, history>>

\* while self.is_recording: the flag read as false, the thread ends
ThreadExit(t) ==
    /\ pc[t] = "loop" /\ ~is_recording
    /\ pc' = [pc EXCEPT ![t] = "done"]
    /\ UNCHANGED <<config, helper, fields, hardware, buffer, silence_duration,
                   last_process_time, chunk_to_process, waited, consumed, min_audio_bound, caller,
                   now, history>>

\* One block arrival, lines 375-434: dequeue, resample, append, classify,
\* decide, and on emission trim the buffer, reset counter and timer and
\* enter the consumer callback.
GetBlock(t) ==
    /\ pc[t] = "get" /\ audio_queue # <<>>
    /\ \E since \in TimeSince(t) :
        LET raw == Head(audio_queue)
            chunk == IF device_sample_rate # target_sample_rate
                     THEN ResampleAudio(raw, device_sample_rate, target_sample_rate)
                     ELSE raw
            buf == buffer[t] \o SamplesOfBlock(chunk)
            is_silent == DetectSilence(AudioData(chunk), silence_threshold)
            sil == IF is_silent THEN silence_duration[t] + chunk.len ELSE 0
            emit == ShouldProcess(sil, Len(buf), since) /\ Len(buf) > 0
            phrase == PhraseOf(buf)
            call == emit /\ HasCallback /\ Len(phrase) > 0
        IN  /\ audio_queue' = Tail(audio_queue)
            /\ consumed' = [consumed EXCEPT ![t] = @ + 1]
            /\ min_audio_bound' = [min_audio_bound EXCEPT ![t] = TRUE]
            /\ buffer' = [buffer EXCEPT ![t] = IF emit THEN KeptOf(buf) ELSE buf]
            /\ silence_duration' = [silence_duration EXCEPT ![t] = IF emit THEN 0 ELSE sil]
            /\ last_process_time' = [last_process_time EXCEPT ![t] = IF emit THEN now ELSE @]
            /\ chunk_to_process' = [chunk_to_process EXCEPT ![t] = IF call THEN phrase ELSE <<>>]
            /\ pc' = [pc EXCEPT ![t] = IF call THEN "cb_block" ELSE "loop"]
            /\ lastEmit' = IF call
                           THEN [t |-> t, len |-> Len(phrase), path |-> "block",
                                 sil |-> sil, at |-> now]
                           ELSE lastEmit
            /\ emitCount' = IF call THEN Bump(emitCount) ELSE emitCount
            /\ cbTicks' = IF call THEN 0 ELSE cbTicks
            /\ lastBlock' = [t |-> t, peak |-> Len(buf), emitted |-> call,
                             kept |-> IF emit THEN Len(KeptOf(buf)) ELSE Len(buf)]
            /\ lateBlock' = (lateBlock \/ since >= max_time_between_processes)
    /\ UNCHANGED <<config, helper, is_recording, stream, thread, hardware, waited, caller,
                   now, spawned, warned, timeoutAttempt, slowCalls, raises, logged>>

\* queue.Empty after 0.1 s, lines 438-451: the whole buffer is handed to the
\* consumer callback when it is non-empty and long or old enough
GetTimeout(t) ==
    /\ pc[t] = "get" /\ audio_queue = <<>>
    /\ timed => waited[t] >= GetTimeoutTicks
    /\ Len(buffer[t]) > 0 => min_audio_bound[t]
    /\ \E since \in TimeSince(t) :
        LET call == TimeoutShouldProcess(Len(buffer[t]), since) /\ HasCallback
        IN  /\ chunk_to_process' = [chunk_to_process EXCEPT ![t] = IF call THEN buffer[t] ELSE <<>>]
            /\ pc' = [pc EXCEPT ![t] = IF call THEN "cb_timeout" ELSE "loop"]
            /\ lastEmit' = IF call
                           THEN [t |-> t, len |-> Len(buffer[t]), path |-> "timeout",
                                 sil |-> silence_duration[t], at |-> now]
                           ELSE lastEmit
            /\ emitCount' = IF call THEN Bump(emitCount) ELSE emitCount
            /\ cbTicks' = IF call THEN 0 ELSE cbTicks
            /\ timeoutAttempt' = (timeoutAttempt \/ call)
    /\ UNCHANGED <<config, helper, fields, hardware, buffer, silence_duration,
                   last_process_time, waited, consumed, min_audio_bound, caller, now, spawned, warned,
                   slowCalls, raises, logged,
                   lastBlock, lateBlock>>

\* A block whose processing raises before line 401 is reached: in
\* _resample_audio (line 379), in np.concatenate (line 385) or in
\* _detect_silence (line 388).  The block is taken from the queue, the
\* buffer has it only if the append was done, `except Exception` (lines
\* 452-453) logs the error and the loop goes on.
GetBlockRaises(t) ==
    /\ pc[t] = "get" /\ audio_queue # <<>>
    /\ logged.processing < MaxBlockFaults
    /\ \E stage \in {"append", "classify"}
                   \cup IF device_sample_rate # target_sample_rate
                        THEN {"resample"} ELSE {} :
        LET raw == Head(audio_queue)
            chunk == IF device_sample_rate # target_sample_rate
                     THEN ResampleAudio(raw, device_sample_rate, target_sample_rate)
                     ELSE raw
        IN  buffer' = [buffer EXCEPT ![t] = IF stage = "classify"
                                            THEN @ \o SamplesOfBlock(chunk) ELSE @]
    /\ audio_queue' = Tail(audio_queue)
    /\ consumed' = [consumed EXCEPT ![t] = @ + 1]
    /\ logged' = [logged EXCEPT !.processing = @ + 1]
    /\ pc' = [pc EXCEPT ![t] = "loop"]
    /\ UNCHANGED <<config, helper, is_recording, stream, thread, hardware,
                   silence_duration, last_process_time, chunk_to_process, waited,
                   min_audio_bound, caller, now, spawned, warned, lastEmit,
                   emitCount, timeoutAttempt, cbTicks, slowCalls, raises, lastBlock,
                   lateBlock>>

\* queue.Empty with a non-empty buffer while min_audio_duration was never
\* assigned: the test of line 441 raises NameError inside the except clause,
\* which no handler of the try statement catches; the thread ends.
GetTimeoutNameError(t) ==
    /\ pc[t] = "get" /\ audio_queue = <<>>
    /\ timed => waited[t] >= GetTimeoutTicks
    /\ Len(buffer[t]) > 0 /\ ~min_audio_bound[t]
    /\ pc' = [pc EXCEPT ![t] = "done"]
    /\ UNCHANGED <<config, helper, fields, hardware, buffer, silence_duration,
                   last_process_time, chunk_to_process, waited, consumed,
                   min_audio_bound, caller, now, history>>

\* The device fails while the stream is open: no further block is delivered.
\* The stream is opened without a finished_callback (lines 463-470), so the
\* object is not told.
DeviceFault ==
    /\ hw = "on" /\ acb = <<>>
    /\ hw' = "dead"
    /\ UNCHANGED <<config, helper, fields, acb, delivered, locals, caller, now, history>>

\* self.callback(...) returns.  On the timeout path the buffer, the silence
\* counter and the timer are reset only now (lines 446-448).
CallbackReturn(t) ==
    /\ InCallback(t)
    /\ IF pc[t] = "cb_timeout"
       THEN /\ buffer' = [buffer EXCEPT ![t] = <<>>]
            /\ silence_duration' = [silence_duration EXCEPT ![t] = 0]
            /\ last_process_time' = [last_process_time EXCEPT ![t] = now]
       ELSE UNCHANGED <<buffer, silence_duration, last_process_time>>
    /\ pc' = [pc EXCEPT ![t] = "loop"]
    /\ chunk_to_process' = [chunk_to_process EXCEPT ![t] = <<>>]
    /\ UNCHANGED <<config, helper, fields, hardware, waited, consumed, min_audio_bound, caller, now, history>>

\* self.callback(...) raises and nothing catches the exception: the thread
\* ends
CallbackRaiseKills(t) ==
    /\ InCallback(t)
    /\ raises < MaxRaises
    /\ raises' = raises + 1
    /\ pc' = [pc EXCEPT ![t] = "done"]
    /\ chunk_to_process' = [chunk_to_process EXCEPT ![t] = <<>>]
    /\ UNCHANGED <<config, helper, fields, hardware, buffer, silence_duration,
                   last_process_time, waited, consumed, min_audio_bound, caller,
                   now, spawned, warned, lastEmit, emitCount, timeoutAttempt,
                   cbTicks, slowCalls, lastBlock, lateBlock, logged>>

\* self.callback(...) raises; the exception is caught and logged (lines
\* 435-436 and 449-450) and the locals are left as they are
CallbackRaise(t) ==
    /\ InCallback(t)
    /\ raises < MaxRaises
    /\ raises' = raises + 1
    /\ pc' = [pc EXCEPT ![t] = "loop"]
    /\ chunk_to_process' = [chunk_to_process EXCEPT ![t] = <<>>]
    /\ UNCHANGED <<config, helper, fields, hardware, buffer, silence_duration,
                   last_process_time, waited, consumed, min_audio_bound, caller, now, spawned, warned,
                   lastEmit, emitCount, timeoutAttempt, cbTicks, slowCalls,
                   lastBlock, lateBlock, logged>>

\* ------------------------------------------------------- the caller: start()
\* how the last call ended: n counts the threads a start() has started, or the
\* blocks a stop() has cleared from the queue
Returned(op, how, n) == [op |-> op, how |-> how, n |-> n]

\* start() while is_recording (lines 457-459): a warning, and return
StartAlreadyRunning ==
    /\ cpc = "idle" /\ is_recording
    /\ ret' = Returned("start", "noop", 0)
    /\ UNCHANGED <<config, helper, fields, hardware, locals, cpc, now, history>>

\* start() that does not look at is_recording
StartBeginUnguarded ==
    /\ cpc = "idle"
    /\ spawned < MaxStarts
    /\ cpc' = "start_open"
    /\ ret' = Returned("start", "running", spawned)
    /\ UNCHANGED <<config, helper, fields, hardware, locals, now, history>>

\* start() on an idle pipeline enters the try block
StartBegin ==
    /\ cpc = "idle" /\ ~is_recording
    /\ spawned < MaxStarts
    /\ cpc' = "start_open"
    /\ ret' = Returned("start", "running", spawned)
    /\ UNCHANGED <<config, helper, fields, hardware, locals, now, history>>

\* sd.InputStream(...) and self.stream.start() succeed (lines 463-472)
StartOpenStream ==
    /\ cpc = "start_open"
    /\ stream' = "open" /\ hw' = "on"
    /\ cpc' = "start_flag"
    /\ UNCHANGED <<config, helper, is_recording, audio_queue, thread, acb, delivered,
                   locals, ret, now, history>>

\* sd.InputStream(...) raises: self.stream is not assigned, the error is
\* logged and raised again (lines 481-483)
StartOpenFails ==
    /\ cpc = "start_open"
    /\ cpc' = "idle"
    /\ ret' = Returned("start", "raised", 0)
    /\ UNCHANGED <<config, helper, fields, hardware, locals, now, history>>

\* self.stream.start() raises: self.stream keeps the new handle
StartStreamFails ==
    /\ cpc = "start_open"
    /\ stream' = "open"
    /\ cpc' = "idle"
    /\ ret' = Returned("start", "raised", 0)
    /\ UNCHANGED <<config, helper, is_recording, audio_queue, thread, hardware, locals,
                   now, history>>

\* self.is_recording = True (line 473)
StartSetRecording ==
    /\ cpc = "start_flag"
    /\ is_recording' = TRUE
    /\ cpc' = "start_spawn"
    /\ UNCHANGED <<config, helper, stream, audio_queue, thread, hardware, locals, ret,
                   now, history>>

\* threading.Thread(target=self._process_audio_chunks).start() (lines
\* 476-477); the new thread runs lines 364-370 and stands at the while
StartSpawnThread ==
    /\ cpc = "start_spawn"
    /\ LET t == spawned + 1
       IN  /\ thread' = t
           /\ pc' = [pc EXCEPT ![t] = "loop"]
           /\ buffer' = [buffer EXCEPT ![t] = <<>>]
           /\ silence_duration' = [silence_duration EXCEPT ![t] = 0]
           /\ last_process_time' = [last_process_time EXCEPT ![t] = now]
           /\ spawned' = t
           /\ ret' = Returned("start", "ok", t - ret.n)
    /\ cpc' = "idle"
    /\ UNCHANGED <<config, helper, is_recording, stream, audio_queue, hardware,
                   chunk_to_process, waited, consumed, min_audio_bound, now, warned, lastEmit,
                   emitCount, timeoutAttempt, cbTicks, slowCalls, raises, logged,
                   lastBlock, lateBlock>>

\* -------------------------------------------------------- the caller: stop()
\* stop() while not recording (lines 487-489)
StopNotRecording ==
    /\ cpc = "idle" /\ ~is_recording
    /\ ret' = Returned("stop", "noop", 0)
    /\ UNCHANGED <<config, helper, fields, hardware, locals, cpc, now, history>>

\* self.is_recording = False (line 492)
StopClearRecording ==
    /\ cpc = "idle" /\ is_recording
    /\ is_recording' = FALSE
    /\ cpc' = "stop_stream"
    /\ ret' = Returned("stop", "running", 0)
    /\ UNCHANGED <<config, helper, stream, audio_queue, thread, hardware, locals, now, history>>

\* stop() that closes the stream and keeps the handle
StopStreamKeepsHandle ==
    /\ cpc = "stop_stream"
    /\ stream = "open" => acb = <<>>
    /\ hw' = "off"
    /\ cpc' = "stop_join"
    /\ UNCHANGED <<config, helper, fields, acb, delivered, locals, ret, now, history>>

\* stop() that goes from the stream to the queue without joining the thread
StopStreamSkipsJoin ==
    /\ cpc = "stop_stream"
    /\ stream = "open" => acb = <<>>
    /\ stream' = "None" /\ hw' = "off"
    /\ cpc' = "stop_drain"
    /\ UNCHANGED <<config, helper, is_recording, audio_queue, thread, acb, delivered,
                   locals, ret, now, history>>

\* Lines 495-503 without an error: stream.stop() waits for the audio
\* callback in flight, stream.close() releases the stream, and the handle is
\* dropped.  With no handle held the block is skipped.
StopStream ==
    /\ cpc = "stop_stream"
    /\ stream = "open" => acb = <<>>
    /\ stream' = "None" /\ hw' = "off"
    /\ cpc' = "stop_join"
    /\ UNCHANGED <<config, helper, is_recording, audio_queue, thread, acb, delivered,
                   locals, ret, now, history>>

\* stop() without the try/except around the stream calls: the error reaches
\* the caller
StopStreamFailsRaises ==
    /\ cpc = "stop_stream" /\ stream = "open"
    /\ acb = <<>>
    /\ hw' = "off"
    /\ cpc' = "idle"
    /\ ret' = Returned("stop", "raised", 0)
    /\ UNCHANGED <<config, helper, fields, acb, delivered, locals, now, history>>

\* Lines 495-503 with an error in stream.active, stop() or close(): the
\* stream is dead, the exception is caught and logged, and the finally
\* clause drops the handle
StopStreamFails ==
    /\ cpc = "stop_stream" /\ stream = "open"
    /\ acb = <<>>
    /\ stream' = "None" /\ hw' = "off"
    /\ cpc' = "stop_join"
    /\ ret' = Returned("stop", "stream_error", 0)
    /\ UNCHANGED <<config, helper, is_recording, audio_queue, thread, acb, delivered,
                   locals, now, history>>

\* Lines 506-510: the thread has ended.  If it ended during the join,
\* self.thread becomes None; if is_alive() already found it ended, or there
\* is no thread, the join is skipped and self.thread is left as it is
StopJoin ==
    /\ cpc = "stop_join"
    /\ thread # 0 => pc[thread] = "done"
    /\ thread' \in {0, thread}
    /\ cpc' = "stop_drain"
    /\ UNCHANGED <<config, helper, is_recording, stream, audio_queue, hardware, locals,
                   ret, now, history>>

\* Lines 507-510: the join gives up after 3 s, which only a thread held in
\* the consumer callback outlasts (every other step of its loop ends
\* within the 0.1 s of the queue read); a warning is logged
StopJoinTimeout ==
    /\ cpc = "stop_join"
    /\ thread # 0 /\ InCallback(thread)
    /\ warned' = warned \cup {thread}
    /\ thread' = 0
    /\ cpc' = "stop_drain"
    /\ UNCHANGED <<config, helper, is_recording, stream, audio_queue, hardware, locals,
                   ret, now, spawned, lastEmit, emitCount, timeoutAttempt, cbTicks,
                   slowCalls, raises, logged,
                   lastBlock, lateBlock>>

\* Lines 514-519: one get_nowait() of the drain loop
StopDrainOne ==
    /\ cpc = "stop_drain" /\ audio_queue # <<>>
    /\ audio_queue' = Tail(audio_queue)
    /\ ret' = [ret EXCEPT !.n = @ + 1]
    /\ UNCHANGED <<config, helper, is_recording, stream, thread, hardware, locals, cpc,
                   now, history>>

\* stop() that returns without clearing the queue
StopReturnNoDrain ==
    /\ cpc = "stop_drain"
    /\ cpc' = "idle"
    /\ ret' = Returned("stop", IF ret.how = "stream_error" THEN "ok_stream_error" ELSE "ok", ret.n)
    /\ UNCHANGED <<config, helper, fields, hardware, locals, now, history>>

\* Lines 514-523: the queue is empty, stop() returns
StopReturn ==
    /\ cpc = "stop_drain" /\ audio_queue = <<>>
    /\ cpc' = "idle"
    /\ ret' = Returned("stop", IF ret.how = "stream_error" THEN "ok_stream_error" ELSE "ok", ret.n)
    /\ UNCHANGED <<config, helper, fields, hardware, locals, now, history>>

\* ------------------------------------------------------------------ the clock
\* 0.1 s passes.  Steps that take no time come first: a block that is due
\* is delivered, a thread that can run runs, a queue read that has waited
\* its 0.1 s times out.  Only a slow consumer callback takes time.
Tick ==
    /\ timed /\ now < horizon
    /\ acb = <<>>
    /\ hw = "on" => (delivered + 1) * BlockTicks > now
    /\ \A t \in Threads :
          /\ pc[t] # "loop"
          /\ InCallback(t) => consumer = "slow" /\ (cbTicks > 0 \/ slowCalls < MaxSlowCalls)
          /\ pc[t] = "get" => audio_queue = <<>> /\ waited[t] < GetTimeoutTicks
    /\ now' = now + 1
    /\ waited' = [t \in Threads |-> IF pc[t] = "get" THEN waited[t] + 1 ELSE waited[t]]
    /\ cbTicks' = IF \E t \in Threads : InCallback(t) THEN cbTicks + 1 ELSE cbTicks
    /\ slowCalls' = IF cbTicks = 0 /\ \E t \in Threads : InCallback(t)
                    THEN slowCalls + 1 ELSE slowCalls
    /\ UNCHANGED <<config, helper, fields, hardware, pc, buffer, silence_duration,
                   last_process_time, chunk_to_process, consumed, min_audio_bound, caller, spawned,
                   warned, lastEmit, emitCount, timeoutAttempt, raises, logged, lastBlock,
                   lateBlock>>

\* ------------------------------------------------- helpers called on their own
\* list(dict.fromkeys(rates)): duplicates removed, order kept (line 238)
RECURSIVE Dedup(_, _)
Dedup(rates, seen) ==
    IF rates = <<>> THEN <<>>
    ELSE IF Head(rates) \in seen THEN Dedup(Tail(rates), seen)
    ELSE <<Head(rates)>> \o Dedup(Tail(rates), seen \cup {Head(rates)})

\* the first rate of the list the hardware accepts, 0 if it accepts none
RECURSIVE FirstAccepted(_, _)
FirstAccepted(rates, accepts) ==
    IF rates = <<>> THEN 0
    ELSE IF Head(rates) \in accepts THEN Head(rates)
    ELSE FirstAccepted(Tail(rates), accepts)

\* _get_device_sample_rate (lines 227-296): `known` is the test of line 230,
\* `accepts` the rates at which a test stream can be opened.
GetDeviceSampleRate(target, default_rate, accepts, known) ==
    LET test_rates == Dedup(<<default_rate>> \o CommonRates, {})
        in_test_rates == \E i \in 1..Len(test_rates) : test_rates[i] = target
        others == SelectSeq(test_rates, LAMBDA r : r # default_rate)
        other == FirstAccepted(others, accepts)
    IN  IF ~known THEN 44100
        ELSE IF in_test_rates /\ target \in accepts THEN target
        ELSE IF default_rate \in accepts THEN default_rate
        ELSE IF other # 0 THEN other
        ELSE default_rate

\* ----------------------------------------------------------- the constructor
\* A device as _find_loopback_device sees it: hostapi is 0 for a host API the
\* platform's branch does not look at, else the rank of its host API among
\* those it does (Linux looks at PulseAudio and at ALSA); inputs is
\* max_input_channels > 0; loopback is a loopback keyword in the name.
DeviceKinds == [hostapi : 0..2, inputs : BOOLEAN, loopback : BOOLEAN]
DeviceLists == UNION {[1..n -> DeviceKinds] : n \in 0..MaxDevices}
\* An optional device index: <<>> is None, <<i>> the index i.  The
\* `device` argument, and sd.default.device[0], which PortAudio reports as
\* -1 when there is no default input device.
DeviceArgs == {<<>>} \cup {<<i>> : i \in -1..MaxDevices}
DefaultInputs == {<<>>} \cup {<<i>> : i \in -1..(MaxDevices - 1)}

\* devices[i] raises no IndexError
PyIndexable(devices, i) == -Len(devices) <= i /\ i < Len(devices)
\* the least index of a non-empty set of indices
FirstOf(S) == CHOOSE i \in S : \A j \in S : i <= j

\* _find_loopback_device (lines 77-225).  hostapi_error: sd.query_hostapis
\* raises, and the host API pass is skipped (lines 190-191).
FindLoopbackDevice(devices, default_input, hostapi_error) ==
    LET idx == 0..(Len(devices) - 1)
        cand(h) == {i \in idx : devices[i + 1].hostapi = h /\ devices[i + 1].inputs}
        loops(h) == {i \in cand(h) : devices[i + 1].loopback}
        apis == {h \in 1..2 : cand(h) # {}}
        api == FirstOf(apis)
        inputs == {i \in idx : devices[i + 1].inputs}
    IN  IF ~hostapi_error /\ apis # {}
        THEN IF loops(api) # {} THEN <<FirstOf(loops(api))>> ELSE <<FirstOf(cand(api))>>
        ELSE IF default_input # <<>> /\ PyIndexable(devices, default_input[1])
        THEN default_input
        ELSE IF inputs # {} THEN <<FirstOf(inputs)>>
        ELSE <<>>

\* AudioCapture.__init__, lines 58-69: the error raised, or "none" and
\* self.device
Construct(device, devices, default_input, hostapi_error) ==
    IF device # <<>>
    THEN IF device[1] < Len(devices)
         THEN IF PyIndexable(devices, device[1])
              THEN [error |-> "none", device |-> device]
              ELSE [error |-> "IndexError", device |-> <<>>]
         ELSE [error |-> "ValueError", device |-> <<>>]
    ELSE LET found == FindLoopbackDevice(devices, default_input, hostapi_error)
         IN  IF found = <<>>
             THEN [error |-> "RuntimeError", device |-> <<>>]
             ELSE [error |-> "none", device |-> found]

CallConstruct ==
    /\ helper = NoCall
    /\ \E device \in DeviceArgs, devices \in DeviceLists,
          default_input \in DefaultInputs, hostapi_error \in BOOLEAN :
        /\ helper' = [fn |-> "__init__",
                      args |-> <<device, devices, default_input, hostapi_error>>,
                      out |-> Construct(device, devices, default_input, hostapi_error)]
        /\ UNCHANGED <<config, fields, hardware, locals, caller, now, history>>

\* Each run calls one helper once: the helpers keep no state between calls.
CallResampleAudio ==
    /\ helper = NoCall
    /\ \E n \in 0..MaxSamples, a \in Amps, from_rate \in ResampleRates,
       to_rate \in ResampleRates :
        LET chunk == [n |-> 1, len |-> n, amp |-> a]
        IN  /\ helper' = [fn |-> "_resample_audio",
                          args |-> <<chunk, from_rate, to_rate>>,
                          out |-> ResampleAudio(chunk, from_rate, to_rate)]
            /\ UNCHANGED <<config, fields, hardware, locals, caller, now, history>>

CallDetectSilence ==
    /\ helper = NoCall
    /\ \E n \in 0..MaxSamples, threshold \in Thresholds :
        \E audio_data \in [1..n -> SampleAmps] :
            /\ helper' = [fn |-> "_detect_silence",
                          args |-> <<audio_data, threshold>>,
                          out |-> DetectSilence(audio_data, threshold)]
            /\ UNCHANGED <<config, fields, hardware, locals, caller, now, history>>

CallGetDeviceSampleRate ==
    /\ helper = NoCall
    /\ \E target \in TargetRates, default_rate \in DefaultRates,
       accepts \in SUBSET HardwareRates, known \in BOOLEAN :
        /\ helper' = [fn |-> "_get_device_sample_rate",
                      args |-> <<target, default_rate, accepts, known>>,
                      out |-> GetDeviceSampleRate(target, default_rate, accepts, known)]
        /\ UNCHANGED <<config, fields, hardware, locals, caller, now, history>>

\* ------------------------------------------------------------ specifications
\* The object as the constructor leaves it (lines 46-56), in an untimed run
Init ==
    /\ device_sample_rate = target_sample_rate
    /\ max_buffer_duration \in LifecycleMaxBuffer
    /\ timed = FALSE /\ feed = "hardware" /\ pattern = "loud"
    /\ consumer = "slow" /\ horizon = 0
    /\ is_recording = FALSE /\ stream = "None" /\ audio_queue = <<>> /\ thread = 0
    /\ hw = "off" /\ acb = <<>> /\ delivered = 0
    /\ pc = [t \in Threads |-> "unborn"]
    /\ buffer = [t \in Threads |-> <<>>]
    /\ silence_duration = [t \in Threads |-> 0]
    /\ last_process_time = [t \in Threads |-> 0]
    /\ chunk_to_process = [t \in Threads |-> <<>>]
    /\ waited = [t \in Threads |-> 0]
    /\ consumed = [t \in Threads |-> 0]
    /\ min_audio_bound = [t \in Threads |-> FALSE]
    /\ cpc = "idle" /\ ret = Returned("none", "none", 0)
    /\ now = 0
    /\ spawned = 0 /\ warned = {} /\ lastEmit = NoEmit /\ emitCount = 0
    /\ timeoutAttempt = FALSE /\ cbTicks = 0 /\ slowCalls = 0 /\ raises = 0
    /\ lastBlock = NoBlock /\ lateBlock = FALSE
    /\ logged = NoLog /\ helper = NoCall

Next ==
    \/ StartAlreadyRunning \/ StartBegin \/ StartOpenStream \/ StartOpenFails
    \/ StartStreamFails \/ StartSetRecording \/ StartSpawnThread
    \/ StopNotRecording \/ StopClearRecording \/ StopStream \/ StopStreamFails
    \/ StopJoin \/ StopJoinTimeout \/ StopDrainOne \/ StopReturn
    \/ AudioCallbackEnter \/ AudioCallbackPut
    \/ \E t \in Threads :
          \/ ThreadLoop(t) \/ ThreadExit(t) \/ GetBlock(t) \/ GetTimeout(t)
          \/ CallbackReturn(t) \/ CallbackRaise(t)

Spec == Init /\ [][Next]_vars

\* The lifecycle with a segmenter thread that is scheduled: it reads the flag
\* at its while (line 372), its queue read returns a block or times out
\* after 0.1 s (line 375), and the consumer callback it has invoked returns.
ThreadRuns(t) ==
    /\ WF_vars(ThreadLoop(t)) /\ WF_vars(ThreadExit(t))
    /\ WF_vars(GetBlock(t) \/ GetTimeout(t))
    /\ WF_vars(CallbackReturn(t))
\* One cycle in an untimed run, from the state a first start() returns in,
\* with no later start(): a flag that is cleared stays cleared.
LiveInit ==
    /\ device_sample_rate = target_sample_rate
    /\ max_buffer_duration \in LifecycleMaxBuffer
    /\ timed = FALSE /\ feed = "hardware" /\ pattern = "loud"
    /\ consumer = "slow" /\ horizon = 0
    /\ is_recording = TRUE /\ stream = "open" /\ audio_queue = <<>> /\ thread = 1
    /\ hw = "on" /\ acb = <<>> /\ delivered = 0
    /\ pc = [t \in Threads |-> IF t = 1 THEN "loop" ELSE "unborn"]
    /\ buffer = [t \in Threads |-> <<>>]
    /\ silence_duration = [t \in Threads |-> 0]
    /\ last_process_time = [t \in Threads |-> 0]
    /\ chunk_to_process = [t \in Threads |-> <<>>]
    /\ waited = [t \in Threads |-> 0]
    /\ consumed = [t \in Threads |-> 0]
    /\ min_audio_bound = [t \in Threads |-> FALSE]
    /\ cpc = "idle" /\ ret = Returned("start", "ok", 1)
    /\ now = 0
    /\ spawned = 1 /\ warned = {} /\ lastEmit = NoEmit /\ emitCount = 0
    /\ timeoutAttempt = FALSE /\ cbTicks = 0 /\ slowCalls = 0 /\ raises = 0
    /\ lastBlock = NoBlock /\ lateBlock = FALSE
    /\ logged = NoLog /\ helper = NoCall

LiveNext ==
    \/ StartAlreadyRunning
    \/ StopNotRecording \/ StopClearRecording \/ StopStream \/ StopStreamFails
    \/ StopJoin \/ StopJoinTimeout \/ StopDrainOne \/ StopReturn
    \/ AudioCallbackEnter \/ AudioCallbackPut
    \/ \E t \in Threads :
          \/ ThreadLoop(t) \/ ThreadExit(t) \/ GetBlock(t) \/ GetTimeout(t)
          \/ CallbackReturn(t) \/ CallbackRaise(t)

LiveSpec == LiveInit /\ [][LiveNext]_vars /\ \A t \in Threads : ThreadRuns(t)

\* The first start() on a new object, with the stream delivering blocks from
\* the moment it is started and the segmenter thread running once spawned.
StartNext ==
    \/ StartAlreadyRunning \/ StartBegin \/ StartOpenStream \/ StartOpenFails
    \/ StartStreamFails \/ StartSetRecording \/ StartSpawnThread
    \/ AudioCallbackEnter \/ AudioCallbackPut
    \/ \E t \in Threads :
          \/ ThreadLoop(t) \/ GetBlock(t) \/ GetTimeout(t)
          \/ CallbackReturn(t) \/ CallbackRaise(t)

StartSpec == Init /\ [][StartNext]_vars

\* A timed run of one start/stop cycle, from the state start() returns in:
\* the stream is open, the flag is set, thread 1 stands at its while.  The
\* blocks come from the hardware in real time, or were fed ahead of the
\* segmenter, as a test harness feeds a synthetic stream.
SegInit ==
    /\ device_sample_rate \in DeviceRates
    /\ max_buffer_duration \in MaxBufferChoices
    /\ timed = TRUE /\ consumer = "prompt" /\ horizon = Horizon
    /\ feed \in {"hardware", "prefilled"}
    /\ pattern \in {"loud", "silent", "alt"}
    /\ pattern = "alt" => device_sample_rate = target_sample_rate
    /\ is_recording = TRUE /\ stream = "open" /\ thread = 1
    /\ hw = IF feed = "hardware" THEN "on" ELSE "off"
    /\ acb = <<>>
    /\ delivered = IF feed = "hardware" THEN 0 ELSE PrefillBlocks
    /\ audio_queue \in
          IF feed = "hardware" THEN {<<>>}
          ELSE {[k \in 1..PrefillBlocks |-> NewBlock(k, CHOOSE a \in PatternAmps(k) : TRUE)]}
    /\ pc = [t \in Threads |-> IF t = 1 THEN "loop" ELSE "unborn"]
    /\ buffer = [t \in Threads |-> <<>>]
    /\ silence_duration = [t \in Threads |-> 0]
    /\ last_process_time = [t \in Threads |-> 0]
    /\ chunk_to_process = [t \in Threads |-> <<>>]
    /\ waited = [t \in Threads |-> 0]
    /\ consumed = [t \in Threads |-> 0]
    /\ min_audio_bound = [t \in Threads |-> FALSE]
    /\ cpc = "idle" /\ ret = Returned("start", "ok", 1)
    /\ now = 0
    /\ spawned = 1 /\ warned = {} /\ lastEmit = NoEmit /\ emitCount = 0
    /\ timeoutAttempt = FALSE /\ cbTicks = 0 /\ slowCalls = 0 /\ raises = 0
    /\ lastBlock = NoBlock /\ lateBlock = FALSE
    /\ logged = NoLog /\ helper = NoCall

SegNext ==
    \/ AudioCallbackEnter \/ AudioCallbackPut
    \/ \E t \in Threads :
          \/ ThreadLoop(t) \/ GetBlock(t) \/ GetTimeout(t)
          \/ CallbackReturn(t) \/ CallbackRaise(t)
    \/ Tick

SegSpec == SegInit /\ [][SegNext]_vars

\* A timed run of one start/stop cycle in which non-silent blocks arrive in
\* real time without gaps and the consumer callback takes as long as it
\* likes.
SlowInit ==
    /\ device_sample_rate = target_sample_rate
    /\ max_buffer_duration \in MaxBufferChoices
    /\ timed = TRUE /\ consumer = "slow" /\ horizon = SlowHorizon
    /\ feed = "hardware" /\ pattern = "loud"
    /\ is_recording = TRUE /\ stream = "open" /\ thread = 1
    /\ hw = "on" /\ acb = <<>> /\ delivered = 0 /\ audio_queue = <<>>
    /\ pc = [t \in Threads |-> IF t = 1 THEN "loop" ELSE "unborn"]
    /\ buffer = [t \in Threads |-> <<>>]
    /\ silence_duration = [t \in Threads |-> 0]
    /\ last_process_time = [t \in Threads |-> 0]
    /\ chunk_to_process = [t \in Threads |-> <<>>]
    /\ waited = [t \in Threads |-> 0]
    /\ consumed = [t \in Threads |-> 0]
    /\ min_audio_bound = [t \in Threads |-> FALSE]
    /\ cpc = "idle" /\ ret = Returned("start", "ok", 1)
    /\ now = 0
    /\ spawned = 1 /\ warned = {} /\ lastEmit = NoEmit /\ emitCount = 0
    /\ timeoutAttempt = FALSE /\ cbTicks = 0 /\ slowCalls = 0 /\ raises = 0
    /\ lastBlock = NoBlock /\ lateBlock = FALSE
    /\ logged = NoLog /\ helper = NoCall

SlowSpec == SlowInit /\ [][SegNext]_vars

\* A timed run of one start/stop cycle on faulty hardware: the audio
\* callback can be handed an error status, the device can fail, and the
\* processing of a block can raise.
FaultInit ==
    /\ device_sample_rate \in DeviceRates
    /\ max_buffer_duration \in MaxBufferChoices
    /\ timed = TRUE /\ consumer = "prompt" /\ horizon = FaultHorizon
    /\ feed = "faulty" /\ pattern = "loud"
    /\ is_recording = TRUE /\ stream = "open" /\ thread = 1
    /\ hw = "on" /\ acb = <<>> /\ delivered = 0 /\ audio_queue = <<>>
    /\ pc = [t \in Threads |-> IF t = 1 THEN "loop" ELSE "unborn"]
    /\ buffer = [t \in Threads |-> <<>>]
    /\ silence_duration = [t \in Threads |-> 0]
    /\ last_process_time = [t \in Threads |-> 0]
    /\ chunk_to_process = [t \in Threads |-> <<>>]
    /\ waited = [t \in Threads |-> 0]
    /\ consumed = [t \in Threads |-> 0]
    /\ min_audio_bound = [t \in Threads |-> FALSE]
    /\ cpc = "idle" /\ ret = Returned("start", "ok", 1)
    /\ now = 0
    /\ spawned = 1 /\ warned = {} /\ lastEmit = NoEmit /\ emitCount = 0
    /\ timeoutAttempt = FALSE /\ cbTicks = 0 /\ slowCalls = 0 /\ raises = 0
    /\ lastBlock = NoBlock /\ lateBlock = FALSE
    /\ logged = NoLog /\ helper = NoCall

FaultNext ==
    \/ AudioCallbackEnter \/ AudioCallbackPut \/ DeviceFault
    \/ \E t \in Threads :
          \/ ThreadLoop(t) \/ GetBlock(t) \/ GetBlockRaises(t)
          \/ GetTimeout(t) \/ GetTimeoutNameError(t)
          \/ CallbackReturn(t) \/ CallbackRaise(t)
    \/ Tick

FaultSpec == FaultInit /\ [][FaultNext]_vars

\* The helper methods called on their own, on a constructed object.
HelperNext ==
    \/ CallResampleAudio \/ CallDetectSilence \/ CallGetDeviceSampleRate
    \/ CallConstruct

HelperSpec == Init /\ [][HelperNext]_vars

\* ===================================================================== claims
StopHasReturned == cpc = "idle" /\ ret.op = "stop"
StartHasReturned == cpc = "idle" /\ ret.op = "start" /\ ret.how = "ok"

\* C1: over any serial sequence of start() and stop() calls, also after a
\* stop() whose join timed out, the consumer callback is never executing
\* in two segmenter threads at once.
C1_CallbackNeverConcurrent ==
    Cardinality({t \in Threads : InCallback(t)}) <= 1

\* C2: once stop() has returned, and until the next start() call, no
\* invocation of the consumer callback begins.
C2_NoCallbackAfterStop ==
    [][StopHasReturned => \A t \in Threads : InCallback(t)' => InCallback(t)]_vars

C4_StopNeverRaises ==
    /\ ret.op = "stop" => ret.how # "raised"
    /\ StopHasReturned => ~is_recording

\* C4 witness: a stop() whose stream calls failed has returned, and so has
\* a stop() that found nothing to stop.
C4_Witness ==
    /\ StopHasReturned /\ ~is_recording
    /\ ret.how \in {"ok_stream_error", "noop"}
    /\ spawned > 0

\* C5: start() called while is_recording is true returns at once and
\* leaves stream, thread, queue and is_recording as they were, opening no
\* stream and spawning no thread.
C5_StartWhileRecordingIsNoOp ==
    [][(cpc = "idle" /\ is_recording /\ ret'.op = "start" /\ ret' # ret) =>
          /\ cpc' = "idle" /\ ret'.how = "noop"
          /\ UNCHANGED <<is_recording, stream, audio_queue, thread, hw, spawned>>]_vars

\* C5 witness: start() has returned as a no-op on a recording pipeline.
C5_Witness ==
    cpc = "idle" /\ is_recording /\ ret.op = "start" /\ ret.how = "noop"

\* C6: a successful start() returns with is_recording true, a stream handle
\* held and exactly one segmenter thread started, which is running; the
\* stop() that follows returns with is_recording false and the handle
\* released.
C6_StartThenStop ==
    /\ StartHasReturned =>
          /\ is_recording /\ stream = "open" /\ ret.n = 1
          /\ thread # 0 /\ Alive(thread)
    /\ (StopHasReturned /\ ret.how \in {"ok", "ok_stream_error"}) =>
          ~is_recording /\ stream = "None"

\* C6 witness: the stop() following a successful start() has returned.
C6_Witness ==
    StopHasReturned /\ ret.how = "ok" /\ spawned > 0 /\ stream = "None"

\* ------------------------------------------------------- the segmenter claims
\* the length of one block once resampled to the target rate
ResampledBlockLen ==
    ResampleAudio(NewBlock(1, 0), device_sample_rate, target_sample_rate).len
\* max_buffer_duration x target_rate
MaxBufferSamples == SamplesOf(target_sample_rate, max_buffer_duration)

\* The stream of C7: 2 s loud then 1.5 s silent, over and over, at the target
\* rate, with max_buffer_duration at its default of 10 s.
C7_Stream ==
    pattern = "alt" /\ device_sample_rate = target_sample_rate /\ max_buffer_duration = 100

\* one phrase per loud/silent period: the period's phrase is emitted at its
\* sixth block, which brings the silence run to 1.0 s
C7_OnePhrasePerPeriod ==
    /\ emitCount = Min(EmitCap, (consumed[1] + 1) \div 7)
    /\ lastEmit.path # "none" =>
          /\ lastEmit.sil >= SamplesOf(target_sample_rate, min_silence_duration)
          /\ lastEmit.len >= SamplesOf(target_sample_rate, MinAudioTenths)
                              - SamplesOf(target_sample_rate, OverlapTenths)

\* C7 as claimed: on that stream exactly one phrase is emitted per period,
\* only once the silence run has reached 1.0 s, at least 1.2 s long,
\* whatever queue-read timeouts come between the blocks.
C7_AnyInterleaving == C7_Stream => C7_OnePhrasePerPeriod

\* C7 amended: the same, as long as no queue-read timeout has attempted an
\* emission and no block has arrived 6 s or more after the previous
\* emission.
C7_WithoutTimeoutEmission ==
    (C7_Stream /\ ~timeoutAttempt /\ ~lateBlock) => C7_OnePhrasePerPeriod

\* C7 witness: two periods have been consumed with no timeout emission, and
\* the second phrase has just been handed over.
C7_Witness ==
    /\ C7_Stream /\ ~timeoutAttempt /\ ~lateBlock
    /\ emitCount = 2 /\ pc[1] = "cb_block" /\ consumed[1] = 13

\* C8 as claimed: no phrase handed to the consumer callback is longer than
\* max_buffer_duration x target_rate samples.
C8_PhraseWithinMax == lastEmit.len <= MaxBufferSamples

\* C8 amended: every phrase is shorter than max_buffer_duration x
\* target_rate samples plus one block.
C8_PhraseWithinMaxPlusBlock == lastEmit.len < MaxBufferSamples + ResampledBlockLen

\* C8 witness: a phrase longer than the maximum has been handed over by an
\* overflow-triggered emission.
C8_Witness ==
    /\ lastEmit.path = "block" /\ lastEmit.len > MaxBufferSamples
    /\ InCallback(1)

\* C9 as claimed: while non-silent blocks arrive without gaps, the time
\* since the last emission (or the thread's start) never exceeds 6 s plus
\* one block duration.
C9_EmissionGapBounded ==
    now - lastEmit.at <= max_time_between_processes + BlockTicks

\* C9 amended: it never exceeds 6 s plus one block duration plus the time
\* the consumer callback of the last emission has taken.
C9_EmissionGapBoundedPlusCallback ==
    now - lastEmit.at <= max_time_between_processes + BlockTicks + cbTicks

\* C9 witness: a slow consumer callback has returned, more than 6.5 s have
\* passed since its emission, and the next one has not happened yet.
C9_Witness ==
    /\ now - lastEmit.at > max_time_between_processes + BlockTicks
    /\ cbTicks > 0 /\ ~InCallback(1) /\ emitCount >= 1

\* C10: the buffer never holds more than max_buffer_duration x target_rate
\* samples plus one block, and a block arrival that brings it to the
\* maximum or more has emitted and left no more than the overlap.
C10_BufferBounded ==
    /\ lastBlock.peak <= MaxBufferSamples + ResampledBlockLen
    /\ \A t \in Threads : Len(buffer[t]) <= MaxBufferSamples + ResampledBlockLen
    /\ lastBlock.peak >= MaxBufferSamples =>
          /\ lastBlock.emitted
          /\ lastBlock.kept <= SamplesOf(target_sample_rate, OverlapTenths)

\* C10 witness: a block arrival has brought the buffer over the maximum and
\* the overflow emission has cut it back to the overlap.
C10_Witness ==
    /\ lastBlock.peak > MaxBufferSamples /\ lastBlock.emitted
    /\ Len(buffer[1]) = SamplesOf(target_sample_rate, OverlapTenths)
    /\ pc[1] = "cb_block"

\* ------------------------------------------------- queue and error handling
\* C11 as claimed: the queue between the audio callback and the segmenter
\* has a capacity limit; it never holds more than QueueCapacity blocks, a
\* block captured while it is full being dropped, also while the segmenter
\* is held in a slow consumer callback.
C11_QueueWithinCapacity == Len(audio_queue) <= QueueCapacity

\* C12: the audio callback never blocks: an invocation that has read the
\* flag can always complete its put, whatever the queue holds and wherever
\* the segmenter threads are.
C12_AudioCallbackNeverBlocks == acb # <<>> => ENABLED AudioCallbackPut

\* C12 witness: an audio callback is in flight while the segmenter is held
\* inside the consumer callback and blocks are already queued.
C12_Witness ==
    /\ acb # <<>> /\ InCallback(1) /\ cbTicks > 0
    /\ Len(audio_queue) >= 2

\* C13: an exception raised by the consumer callback never ends the
\* segmenter loop: once an invocation has failed, on either emission path,
\* the segmenter thread is alive for as long as is_recording is true.
C13_CallbackErrorContained ==
    (raises > 0 /\ is_recording /\ thread # 0) => Alive(thread)

\* C13 witness: one consumer callback invocation has failed, and the thread
\* has gone on consuming blocks and is inside a later invocation.
C13_Witness ==
    /\ raises > 0 /\ is_recording /\ thread = 1
    /\ InCallback(1) /\ emitCount >= 2

\* C14 as claimed: an exception raised while one block is processed is
\* caught for that block only; the segmenter thread stays alive through
\* every later iteration, a later queue-read timeout included.
C14_BlockErrorContained ==
    (logged.processing > 0 /\ is_recording /\ thread # 0) => Alive(thread)

\* C15 as claimed: in every state, is_recording true implies that the
\* segmenter thread is alive.
C15_RecordingImpliesThreadAlive ==
    (is_recording /\ cpc = "idle") => (thread # 0 /\ Alive(thread))

\* C16 as claimed: once the audio callback has been handed an error status,
\* or the device has failed, the stream is torn down and is_recording is
\* cleared.
C16_StreamErrorTearsDown ==
    ((logged.status > 0 /\ acb = <<>>) \/ hw = "dead") =>
        (~is_recording /\ stream = "None")

\* ------------------------------------------------------- the helper methods
\* the order of probes of the specification: the target rate, the device's
\* default, then the common rates
ProbeOrder(target, default_rate) == <<target, default_rate>> \o CommonRates

\* C17 as claimed: the negotiation returns the first rate the hardware
\* accepts in the order target, default, 48000, 44100, 96000, 192000, 32000,
\* 16000 (so the target whenever the hardware accepts it), and the device's
\* declared default when every probe is rejected.
C17_NegotiationOrder ==
    (helper.fn = "_get_device_sample_rate" /\ helper.args[4]) =>
        LET first == FirstAccepted(ProbeOrder(helper.args[1], helper.args[2]),
                                   helper.args[3])
        IN  helper.out = IF first # 0 THEN first ELSE helper.args[2]

\* C18: resampling with equal source and target rates returns the block
\* unchanged, same samples and same length.
C18_ResampleIdentity ==
    (helper.fn = "_resample_audio" /\ helper.args[2] = helper.args[3]) =>
        helper.out = helper.args[1]

\* C18 witness: a non-empty, non-silent block has been resampled from a
\* rate to the same rate.
C18_Witness ==
    /\ helper.fn = "_resample_audio" /\ helper.args[2] = helper.args[3]
    /\ helper.args[1].len = MaxSamples /\ helper.args[1].amp # 0

\* round(num / den) of Python for num >= 0 and den > 0: to the nearest
\* integer, a tie to the even one
PyRound(num, den) ==
    LET q == num \div den
        r == num % den
    IN  IF 2 * r < den THEN q
        ELSE IF 2 * r > den THEN q + 1
        ELSE IF q % 2 = 0 THEN q ELSE q + 1

\* C19 as claimed: for different rates the resampled block has exactly
\* round(len * to_rate / from_rate) samples.
C19_ResampledLengthRounded ==
    (helper.fn = "_resample_audio" /\ helper.args[2] # helper.args[3]) =>
        helper.out.len = PyRound(helper.args[1].len * helper.args[3], helper.args[2])

\* C20: a block of at least one sample is classified silent exactly when
\* its RMS energy is below the threshold or more than 80% of its samples
\* are below the threshold in absolute value.
C20_SilentIffRmsOrRatio ==
    (helper.fn = "_detect_silence" /\ Len(helper.args[1]) > 0) =>
        LET x == helper.args[1]
            thr == helper.args[2]
            quiet == {i \in 1..Len(x) : Abs(x[i]) < thr}
        IN  helper.out <=> \/ SumSq(x) < thr * thr * Len(x)
                           \/ 5 * Cardinality(quiet) > 4 * Len(x)

\* C20 witness: a block with one loud transient among quiet samples has
\* been classified silent by the ratio alone, its RMS being over the
\* threshold.
C20_Witness ==
    /\ helper.fn = "_detect_silence" /\ helper.out = TRUE
    /\ Len(helper.args[1]) = MaxSamples
    /\ SumSq(helper.args[1]) >= helper.args[2] * helper.args[2] * MaxSamples

\* C21 as claimed: for an all-zero block of any length, length 0 included,
\* and any positive threshold, the silence detector returns true.
C21_ZeroBlockSilent ==
    (/\ helper.fn = "_detect_silence"
     /\ \A i \in 1..Len(helper.args[1]) : helper.args[1][i] = 0
     /\ helper.args[2] > 0) => helper.out = TRUE

\* ------------------------------------------------ the segmenter, step by step
\* the samples of the rolling buffer that have not been handed to the
\* consumer callback: inside a timeout-path invocation the buffer still
\* holds the phrase it has handed over
NotHanded(pcv, buf) == IF pcv = "cb_timeout" THEN <<>> ELSE buf

\* the phrase a step of thread t hands to the consumer callback, if any
HandedBy(t) ==
    IF ~InCallback(t) /\ InCallback(t)' THEN chunk_to_process'[t] ELSE <<>>

\* the resampled samples of the block a step of thread t takes from the
\* queue, if any
TakenBy(t) ==
    IF consumed'[t] # consumed[t]
    THEN SamplesOfBlock(ResampleAudio(Head(audio_queue), device_sample_rate,
                                      target_sample_rate))
    ELSE <<>>

\* C22 as claimed: audio is never dropped by the segmenter.  In every step
\* the phrase handed to the consumer callback followed by what the buffer
\* holds afterwards is what the buffer held followed by the block taken from
\* the queue; so the phrases handed over, in order, followed by the buffer
\* are at every moment the blocks taken, no sample lost, duplicated or
\* reordered.
C22_NoSampleLostOrDuplicated ==
    [][\A t \in Threads :
          HandedBy(t) \o NotHanded(pc'[t], buffer'[t])
              = NotHanded(pc[t], buffer[t]) \o TakenBy(t)]_vars

\* ----------------------------------------------------------- construction
\* C23 as claimed: construction fails with an error when auto-detection has
\* no capturable input device to identify (no enumerated device has input
\* channels), and when an explicit device index is not less than the
\* number of enumerated devices.
C23_ConstructionFailsWithoutDevice ==
    helper.fn = "__init__" =>
        LET device == helper.args[1]
            devices == helper.args[2]
            no_input == \A i \in 1..Len(devices) : ~devices[i].inputs
        IN  /\ (device = <<>> /\ no_input) => helper.out.error # "none"
            /\ (device # <<>> /\ device[1] >= Len(devices)) => helper.out.error # "none"

\* ------------------------------------------------------------- scoped use
\* __enter__ is a call of start() (line 527) and __exit__ a call of stop()
\* (line 532), whatever the body did: a with block is a start() that returned
\* without raising, the calls its body makes, and then a stop().  A start()
\* returns without raising only after a thread was started, by this call or,
\* when it finds the pipeline running, by an earlier one.
ContextEntered == spawned > 0
\* C24 as claimed: once the stop() that leaves a context has returned,
\* is_recording is false and the stream handle is released, whether the
\* body completed or raised.
C24_ScopedUseReleases ==
    (ContextEntered /\ StopHasReturned) => (~is_recording /\ stream = "None")

\* ------------------------------------------------------ the emission rules
\* the block a block arrival of thread t takes, as the segmenter sees it
ArrivedBlock == ResampleAudio(Head(audio_queue), device_sample_rate, target_sample_rate)
\* the silence run once the arrived block is counted
ArrivedSilence(t) ==
    IF DetectSilence(AudioData(ArrivedBlock), silence_threshold)
    THEN silence_duration[t] + ArrivedBlock.len
    ELSE 0
\* the buffer length once the arrived block is appended
ArrivedLen(t) == Len(buffer[t]) + ArrivedBlock.len
\* n samples last at least `tenths` tenths of a second at the target rate
AtLeast(n, tenths) == 10 * n >= tenths * target_sample_rate

OverlapLen == (OverlapTenths * target_sample_rate) \div 10
\* the buffers shorter than the overlap
ShortBuffers == UNION {[1..n -> 1..MaxBlocks] : n \in 0..(OverlapLen - 1)}

\* C26: a block-path emission of a buffer longer than the overlap hands over
\* the buffer without its trailing 0.3 s and keeps exactly that tail; of a
\* buffer shorter than the overlap it hands over the whole buffer and keeps
\* nothing; in both cases the silence run becomes 0 and the last-emission
\* time becomes now.  Every block is 0.5 s long, so the buffers that block
\* arrivals build are longer than the overlap: the short ones are put to the
\* trimming rule directly.
C26_BlockEmissionTrims ==
    [][/\ \A t \in Threads :
            (pc[t] = "get" /\ pc'[t] = "cb_block") =>
                LET buf == buffer[t] \o SamplesOfBlock(ArrivedBlock)
                    n == Len(buf)
                IN  /\ n > OverlapLen =>
                          /\ chunk_to_process'[t] = SubSeq(buf, 1, n - OverlapLen)
                          /\ buffer'[t] = SubSeq(buf, n - OverlapLen + 1, n)
                    /\ n < OverlapLen =>
                          chunk_to_process'[t] = buf /\ buffer'[t] = <<>>
                    /\ silence_duration'[t] = 0
                    /\ last_process_time'[t] = now'
       /\ \A buf \in ShortBuffers : PhraseOf(buf) = buf /\ KeptOf(buf) = <<>>]_vars

\* C26 witness: a block-path emission, later than time 0 and after a silence
\* run, has just handed over a phrase and kept a 0.3 s tail that comes from
\* a later block than the phrase begins with.
C26_Witness ==
    \E t \in Threads :
        /\ pc[t] = "cb_block" /\ cbTicks = 0 /\ now > 0
        /\ lastEmit.path = "block" /\ lastEmit.sil > 0
        /\ Len(buffer[t]) = OverlapLen
        /\ chunk_to_process[t] # <<>>
        /\ chunk_to_process[t][1] # buffer[t][1]
        /\ silence_duration[t] = 0 /\ last_process_time[t] = now

\* the segmenter state a queue-read timeout is claimed to leave alone
TimeoutLocals(t) == <<buffer[t], silence_duration[t], last_process_time[t]>>
\* thread t leaves a queue read without having taken a block
TimedOut(t) == pc[t] = "get" /\ pc'[t] # "get" /\ consumed'[t] = consumed[t]
\* the invocation of the consumer callback made on the timeout path ends
TimeoutEmissionEnds(t) == pc[t] = "cb_timeout" /\ pc'[t] # "cb_timeout"

\* C27 as claimed: a queue-read timeout with a non-empty buffer that holds
\* 1.5 s or has waited 6 s since the last emission hands the whole buffer
\* to the consumer callback, and when that emission is over the buffer is
\* empty, the silence run is 0 and the last-emission time is now; any other
\* timeout leaves buffer, silence run and timer unchanged.
C27_TimeoutEmitsWholeBuffer ==
    [][\A t \in Threads :
          /\ TimedOut(t) =>
                IF /\ buffer[t] # <<>>
                   /\ \/ AtLeast(Len(buffer[t]), MinAudioTenths)
                      \/ now - last_process_time[t] >= max_time_between_processes
                THEN pc'[t] = "cb_timeout" /\ chunk_to_process'[t] = buffer[t]
                ELSE pc'[t] = "loop" /\ TimeoutLocals(t)' = TimeoutLocals(t)
          /\ TimeoutEmissionEnds(t) =>
                TimeoutLocals(t)' = <<<<>>, 0, now'>>]_vars

\* ---------------------------------------------------------- the silence run
\* thread t takes a block from the queue
BlockArrives(t) == consumed'[t] # consumed[t]
\* The arrived block is silent.  Every sample of a block of these
\* specifications has the block's amplitude, which is then its RMS energy.
ArrivedSilent == Abs(ArrivedBlock.amp) < silence_threshold

\* C28 as claimed: the silence run is 0 after every non-silent block, has
\* grown by the block's resampled sample count after every silent block, and
\* decreases at a non-silent block only.
C28_SilenceRunMonotone ==
    [][\A t \in Threads :
          /\ BlockArrives(t) =>
                silence_duration'[t] =
                    IF ArrivedSilent THEN silence_duration[t] + ArrivedBlock.len ELSE 0
          /\ silence_duration'[t] < silence_duration[t] =>
                BlockArrives(t) /\ ~ArrivedSilent]_vars

\* C28 amended: the silence run is 0 after every non-silent block and after
\* every block arrival that emits; after a silent block that does not emit
\* it has grown by the block's resampled sample count; between block
\* arrivals it changes only when the end of a timeout-path emission resets
\* it to 0.
C28_SilenceRunUntilEmission ==
    [][\A t \in Threads :
          /\ BlockArrives(t) =>
                silence_duration'[t] =
                    IF pc'[t] = "cb_block" \/ ~ArrivedSilent THEN 0
                    ELSE silence_duration[t] + ArrivedBlock.len
          /\ ~BlockArrives(t) =>
                \/ silence_duration'[t] = silence_duration[t]
                \/ silence_duration'[t] = 0 /\ TimeoutEmissionEnds(t)]_vars

\* C28 witness: a block arrival has emitted in the middle of a silent run,
\* and the next silent block has brought the silence run from 0 to its own
\* length.
C28_Witness ==
    \E t \in Threads :
        /\ lastEmit.t = t /\ lastEmit.path = "block"
        /\ AtLeast(lastEmit.sil, min_silence_duration)
        /\ lastBlock.t = t /\ ~lastBlock.emitted /\ pc[t] = "loop"
        /\ silence_duration[t] = ResampledBlockLen

\* ------------------------------------------------------- the order of stop()
\* stop() discards a block: the queue loses its head and no thread took it
Drains ==
    /\ audio_queue # <<>> /\ audio_queue' = Tail(audio_queue)
    /\ \A t \in Threads : consumed'[t] = consumed[t]
\* stop() leaves the step it stands at
StopLeaves(step) == cpc = step /\ cpc' # step

\* C29: stop() on a running pipeline clears is_recording, then stops and
\* closes the stream, then joins the segmenter thread, then drains the
\* queue, and returns with the queue empty; when a block is drained the
\* flag is cleared, the stream is released and every thread still alive is
\* one whose join has timed out.
C29_StopOrder ==
    [][/\ (is_recording /\ ~is_recording') => cpc = "idle" /\ cpc' = "stop_stream"
       /\ StopLeaves("stop_stream") =>
             /\ ~is_recording
             /\ cpc' = "stop_join" /\ stream' = "None" /\ hw' = "off"
       /\ StopLeaves("stop_join") =>
             /\ ~is_recording /\ stream = "None"
             /\ cpc' = "stop_drain"
             /\ \A t \in Threads : Alive(t)' => t \in warned'
       /\ Drains =>
             /\ cpc = "stop_drain" /\ ~is_recording /\ stream = "None"
             /\ \A t \in Threads : Alive(t) => t \in warned
       /\ StopLeaves("stop_drain") =>
             cpc' = "idle" /\ audio_queue = <<>> /\ ret'.op = "stop"]_vars

\* C29 witness: the join of the only thread has timed out, and stop() has
\* then drained a block and stands in its drain loop.
C29_Witness ==
    /\ cpc = "stop_drain" /\ ret.n > 0
    /\ spawned = 1 /\ warned = {1} /\ Alive(1)
    /\ ~is_recording /\ stream = "None"

\* ------------------------------------------------------------- cancellation
\* C30: with is_recording cleared a segmenter thread begins no iteration,
\* and once is_recording is cleared for good every segmenter thread ends,
\* provided it is scheduled and the consumer callback returns.
C30_CooperativeCancellation ==
    /\ [][\A t \in Threads :
             (~is_recording /\ pc[t] = "loop" /\ pc'[t] # "loop") => pc'[t] = "done"]_vars
    /\ (<>[](~is_recording)) => <>[](\A t \in Threads : ~Alive(t))

\* C30 witness: a thread that stop() gave up waiting for, because it was in
\* the consumer callback, has ended with is_recording cleared.
C30_Witness ==
    /\ ~is_recording /\ spawned > 0 /\ warned # {}
    /\ \A t \in Threads : t \in warned => pc[t] = "done"

\* ------------------------------------------------------ the queue's consumers
\* thread t, and no other, takes the head of the queue
Consumes(t) ==
    /\ audio_queue # <<>> /\ audio_queue' = Tail(audio_queue)
    /\ consumed' = [consumed EXCEPT ![t] = @ + 1]

\* C31 as claimed: the queue changes only by a block appended at its tail or
\* by its head removed, the head is removed by one party only, and that
\* party is the segmenter thread started by the last start() or, in its
\* drain loop, stop().
C31_OneConsumer ==
    [][audio_queue' # audio_queue =>
          \/ /\ Len(audio_queue') = Len(audio_queue) + 1
             /\ SubSeq(audio_queue', 1, Len(audio_queue)) = audio_queue
             /\ consumed' = consumed
          \/ \E t \in Threads : Consumes(t) /\ t = thread
          \/ Drains /\ cpc = "stop_drain"]_vars

\* --------------------------------------------------------- the audio callback
\* the audio callback is invoked with a block
Invoked == delivered' # delivered
\* C32: an invocation of the audio callback that reads is_recording as true
\* appends exactly one block, the first channel of its input, to the tail
\* of the queue, and one that reads it as false appends nothing; nothing
\* else makes the queue longer, and an invocation between the start of the
\* stream and the setting of is_recording in start() appends nothing.
C32_CallbackAppendsOneBlock ==
    [][/\ Invoked =>
             /\ audio_queue' = audio_queue
             /\ IF is_recording
                THEN \E a \in PatternAmps(delivered') : acb' = <<NewBlock(delivered', a)>>
                ELSE acb' = <<>>
       /\ (Invoked /\ cpc = "start_flag") => acb' = <<>>
       /\ (acb # <<>> /\ acb' # acb) =>
             acb' = <<>> /\ audio_queue' = Append(audio_queue, acb[1])
       /\ Len(audio_queue') > Len(audio_queue) => (acb # <<>> /\ acb' = <<>>)]_vars

\* C32 witness: of two blocks delivered during start(), the one delivered
\* before is_recording was set is not in the queue and the one delivered
\* after it is the queue's only block.
C32_Witness ==
    /\ delivered = 2 /\ acb = <<>>
    /\ audio_queue # <<>> /\ Len(audio_queue) = 1 /\ audio_queue[1].n = 2
    /\ \A t \in Threads : consumed[t] = 0

\* ------------------------------------------------------------ a failed start
\* the last call was a start() that raised
StartHasRaised == cpc = "idle" /\ ret.op = "start" /\ ret.how = "raised"
\* C33 as claimed: when start() has raised because opening or starting the
\* stream failed, is_recording is false, the only threads alive are those
\* an earlier stop() gave up joining, and the object holds no stream handle.
C33_FailedStartLeavesIdle ==
    StartHasRaised =>
        /\ ~is_recording
        /\ \A t \in Threads : Alive(t) => t \in warned
        /\ stream = "None"

\* ------------------------------------------------------- state across cycles
\* a start() spawns the segmenter thread of a new cycle
CycleBegins == spawned' # spawned
\* thread t begins an invocation of the consumer callback
EmissionBegins(t) == ~InCallback(t) /\ InCallback(t)'
\* the segmenter state of thread t is as a new thread has it (lines 364-366)
Fresh(t) == buffer[t] = <<>> /\ silence_duration[t] = 0 /\ last_process_time[t] = now

\* C34 as claimed: when a start() begins a new cycle, no segmenter state of
\* an earlier cycle is alive, the new thread's buffer, silence run and
\* last-emission time are fresh, and every phrase is emitted from the state
\* of the thread of the current cycle, so that it holds only samples
\* captured since that thread was started.
C34_NoLeakAcrossCycles ==
    [][/\ CycleBegins => \A t \in Threads : Alive(t)' => Fresh(t)'
       /\ \A t \in Threads : EmissionBegins(t) => t = spawned]_vars

\* ------------------------------------------------------- one call per phrase
\* thread t ends an invocation of the consumer callback, by return or raise
EmissionEnds(t) == InCallback(t) /\ ~InCallback(t)'

\* C35 as claimed: the phrase passed to the consumer callback is taken out
\* of what the rolling buffer has to hand over, and when the invocation
\* ends, by return or by raise and on either path, the buffer holds none of
\* the samples passed, which are thus never passed again.
C35_PhrasePassedOnce ==
    [][\A t \in Threads :
          /\ EmissionBegins(t) =>
                chunk_to_process'[t] \o NotHanded(pc'[t], buffer'[t])
                    = buffer[t] \o TakenBy(t)
          /\ EmissionEnds(t) => buffer'[t] = NotHanded(pc[t], buffer[t])]_vars

\* C36: the consumer callback is never invoked with an empty phrase, on the
\* block-arrival path or on the queue-timeout path.
C36_PhraseNeverEmpty ==
    \A t \in Threads : InCallback(t) => Len(chunk_to_process[t]) >= 1

\* C36 witness: after an earlier emission a queue-read timeout, 6 s after
\* that emission, hands over a buffer that holds less than 1.5 s.
C36_Witness ==
    \E t \in Threads :
        /\ pc[t] = "cb_timeout" /\ lastEmit.path = "timeout" /\ emitCount >= 2
        /\ Len(chunk_to_process[t]) >= 1
        /\ Len(chunk_to_process[t]) < min_audio_duration
====
